---- MODULE Spec2Model ----
(***************************************************************************)
(* Model of the BLE file-transfer engine:                                  *)
(*   LLSender   (src/ll_sender.py)    frame splitter                       *)
(*   LLReceiver (src/ll_receiver.py)  frame assembler                      *)
(*   HLDownload (src/hl_download.py)  resumable download session           *)
(*   HLUpload   (src/hl_upload.py)    upload session                       *)
(* Wall-clock fields (time stamps, durations) are not modelled.            *)
(***************************************************************************)
EXTENDS Integers, Sequences, FiniteSets, TLC

(* ------------------------------ bounds -------------------------------- *)
\* largest byte value of the modelled payloads
MaxByte == 1
\* longest payload handed to LLSender.send by the link-level harness
MaxLen == 3
\* largest payload size (mtu - header) tried
MaxPayloadSize == 2

(* --------------------------- program constants ------------------------ *)
PAYLOAD_HEADER_SIZE == 22

(* ------------------------------ helpers ------------------------------- *)
Bytes == 0..MaxByte

BoundedSeq(S, n) == UNION {[1..k -> S] : k \in 0..n}

Min(a, b) == IF a < b THEN a ELSE b

\* variant of Ceil: the quotient rounded down
Ceil_floor(a, b) == a \div b

\* math.ceil(a / b) for a >= 0, b >= 1
Ceil(a, b) == (a + b - 1) \div b

\* bytes(itertools.islice(it, size)) with the iterator at offset pos
Slice(data, pos, size) == SubSeq(data, pos + 1, Min(pos + size, Len(data)))

\* the MTUs tried: header size + 1 and up
Mtus == (PAYLOAD_HEADER_SIZE + 1)..(PAYLOAD_HEADER_SIZE + MaxPayloadSize)

\* the digest space of the modelled hash function
DigestSpace == 16
\* the space of the 2-byte digest prefixes
PrefixSpace == 4

\* hashlib.md5(data).digest(): a deterministic function of the bytes into a
\* finite digest space (a polynomial fold); distinct inputs may collide.
RECURSIVE MD5(_)
MD5(data) ==
    IF data = <<>> THEN 5
    ELSE (MD5(SubSeq(data, 1, Len(data) - 1)) * 3 + data[Len(data)] + 1) % DigestSpace

\* digest()[0:2]: a part of the digest, in a smaller space
Prefix2(digest) == digest % PrefixSpace

\* bytes(): the empty bytes value of an unset hash field
EmptyHash == -1

\* TransferData(): the protobuf default frame
TransferData == [current_chunk |-> 0, overall_chunks |-> 0, hash |-> EmptyHash, data |-> <<>>]

(* ------------------------------- state -------------------------------- *)
VARIABLES
    sender,     \* the LLSender object: mtu, transfer_data (the one frame object the
                \* generator yields), gen ("none" before the first send, "run",
                \* "done"), data/pos/size (the generator's data, offset and size)
    wire,       \* what the last get_chunk returned and nobody consumed yet: "none",
                \* "ref" (the object sender.transfer_data), "eos" (a new TransferData())
    receiver,   \* the LLReceiver object: remaining_chunks, data, new_data, error
    ret,        \* value returned by the last new_chunk call ("none" before the first)
    delivered,  \* buffers passed to cb_new_data since the receiver was built
    h_mode,     \* harness: "idle", then "clean", "seqAltered", "dataAltered"
    h_read,     \* harness: LLReceiver.data was read since the receiver was built
    h_last,     \* harness: the altered frame that was fed and how it was altered
    h_pulled,   \* harness: copies of the data frames get_chunk returned since the
                \* last send, in order
    h_rx        \* harness: the reception since the last frame with index 0: whether
                \* one was started, the total it declared, the number of frames
                \* accepted, their data joined, whether a frame was rejected, the
                \* buffers passed to cb_new_data, the last operation ("feed",
                \* "read") and the frame fed last

VARIABLES
    dl,         \* the HLDownload object: _request and _response
    disk,       \* the download directory: marker (request.json), chunks
                \* (chunk{N}.bin by N), final (the file written at finalization)
    d_op,       \* the last HLDownload operation: "init", "restart", "set_request"
                \* (a request that has to start a new transfer), "reannounce"
                \* (set_request otherwise), "get_response", "add_chunk", or
                \* "damage" (of request.json)
    d_accepted, \* this session tracks a request it accepted as new or resumed
    d_received, \* the super-chunks passed to add_chunk for that request, in order
    d_cb,       \* the cb_finished calls made for that request, in order
    d_arg,      \* the request passed to set_request when that was the last operation
                \* and the request had to start a new transfer (a new
                \* StartTransferRequest() otherwise)
    d_crash     \* "accept" when the tracked request was resumed after the process
                \* died inside the set_request that accepted it, "none" otherwise

VARIABLES
    ul,         \* the HLUpload object: _response and _chunk_generator (state "none"
                \* before the first upload, "run", "done"; pos, the file offset;
                \* short, the last read was shorter than the chunk size)
    up,         \* the upload set-up: the bytes of the file "f" under the upload
                \* root and HLUpload._chunk_size
    u_accepted, \* a new-upload request for an existing file was accepted
    u_sent      \* the super-chunks handed to LLSender.send since then, in order

llVars == <<sender, wire, receiver, ret, delivered, h_mode, h_read, h_last, h_pulled, h_rx>>
dlVars == <<dl, disk, d_op, d_accepted, d_received, d_cb, d_arg, d_crash>>
ulVars == <<ul, up, u_accepted, u_sent>>

vars == <<llVars, dlVars, ulVars>>

\* no frame was fed yet
NoReception ==
    [started |-> FALSE, total |-> 0, accepted |-> 0, joined |-> <<>>,
     rejected |-> FALSE, calls |-> <<>>, op |-> "none", frame |-> TransferData]

(* ------------------------------ LLSender ------------------------------ *)
\* LLSender.__init__(mtu)
LLSender_init(m) ==
    [mtu |-> m, transfer_data |-> TransferData,
     gen |-> "none", data |-> <<>>, pos |-> 0, size |-> 0]

\* variant of LLSender_send: the generator keeps the offset it had
LLSender_send_keeps(s, data) ==
    LET payload_size == s.mtu - PAYLOAD_HEADER_SIZE
    IN  [s EXCEPT !.transfer_data.current_chunk = -1,
                  !.transfer_data.overall_chunks = Ceil(Len(data), payload_size),
                  !.gen = "run", !.data = data, !.size = payload_size]

\* LLSender.send(data)
LLSender_send(s, data) ==
    LET payload_size == s.mtu - PAYLOAD_HEADER_SIZE
    IN  [s EXCEPT !.transfer_data.current_chunk = -1,
                  !.transfer_data.overall_chunks = Ceil(Len(data), payload_size),
                  !.gen = "run", !.data = data, !.pos = 0, !.size = payload_size]

\* LLSender._split resumed by __next__: the chunk it reads
NextSlice(s) == Slice(s.data, s.pos, s.size)

\* LLSender._split resumed by __next__: TRUE when it yields a frame
SplitYields(s) == s.gen = "run" /\ NextSlice(s) # <<>>

\* variant of LLSender_get_chunk: the sequence index is not advanced
LLSender_get_chunk_sameindex(s) ==
    IF SplitYields(s)
    THEN [s EXCEPT !.transfer_data.hash = Prefix2(MD5(NextSlice(s))),
                   !.transfer_data.data = NextSlice(s),
                   !.pos = @ + Len(NextSlice(s))]
    ELSE [s EXCEPT !.gen = "done"]

\* LLSender.get_chunk: the sender afterwards (s.gen # "none")
LLSender_get_chunk(s) ==
    IF SplitYields(s)
    THEN [s EXCEPT !.transfer_data.current_chunk = @ + 1,
                   !.transfer_data.hash = Prefix2(MD5(NextSlice(s))),
                   !.transfer_data.data = NextSlice(s),
                   !.pos = @ + Len(NextSlice(s))]
    ELSE [s EXCEPT !.gen = "done"]

\* the frame a consumer holding the result of get_chunk sees
WireFrame == IF wire = "ref" THEN sender.transfer_data ELSE TransferData

(* ----------------------------- LLReceiver ----------------------------- *)
NONE == "NONE"
WRONG_HASH == "WRONG_HASH"
WRONG_SEQUENCE == "WRONG_SEQUENCE"

\* LLReceiver.__init__
LLReceiver_init ==
    [remaining_chunks |-> 0, data |-> <<>>, new_data |-> FALSE, error |-> NONE]

\* variant of LLReceiver_reset: the assembled data is kept
LLReceiver_reset_keeps(r, num_of_chunks) ==
    [r EXCEPT !.remaining_chunks = num_of_chunks,
              !.new_data = FALSE, !.error = NONE]

\* LLReceiver._reset(num_of_chunks)
LLReceiver_reset(r, num_of_chunks) ==
    [r EXCEPT !.remaining_chunks = num_of_chunks, !.data = <<>>,
              !.new_data = FALSE, !.error = NONE]

\* the sequence check of new_chunk, made for frames with current_chunk # 0
SequenceOk(r, chunk) == r.remaining_chunks + chunk.current_chunk = chunk.overall_chunks

\* variant of HashOk: only the presence of a hash is checked
HashOk_present(chunk) == chunk.hash # EmptyHash

\* the hash check of new_chunk
HashOk(chunk) == Prefix2(MD5(chunk.data)) = chunk.hash

\* LLReceiver.new_chunk(chunk): the receiver afterwards, the value returned, the
\* buffers passed to cb_new_data, and whether the chunk was joined to the data
LLReceiver_new_chunk(r, chunk) ==
    LET base == IF chunk.current_chunk = 0
                THEN LLReceiver_reset(r, chunk.overall_chunks)
                ELSE r
        joined == [base EXCEPT !.data = @ \o chunk.data,
                               !.remaining_chunks = @ - 1]
    IN  IF chunk.current_chunk # 0 /\ ~SequenceOk(r, chunk)
        THEN [rcv |-> [r EXCEPT !.error = WRONG_SEQUENCE], ret |-> -1, cb |-> <<>>,
              acc |-> FALSE]
        ELSE IF ~HashOk(chunk)
        THEN [rcv |-> [base EXCEPT !.error = WRONG_HASH], ret |-> -1, cb |-> <<>>,
              acc |-> FALSE]
        ELSE IF joined.remaining_chunks = 0
        THEN [rcv |-> [joined EXCEPT !.new_data = TRUE], ret |-> 0,
              cb |-> <<joined.data>>, acc |-> TRUE]
        ELSE [rcv |-> joined, ret |-> joined.remaining_chunks, cb |-> <<>>,
              acc |-> TRUE]

\* variant of LLReceiver_data: reading leaves the flag
LLReceiver_data_keeps(r) == r

\* LLReceiver.data (property): reading clears the flag
LLReceiver_data(r) == [r EXCEPT !.new_data = FALSE]

(* ----------------------------- HLDownload ----------------------------- *)
\* StartTransferResponseStatus
TRANSFER == "TRANSFER"
FINISHED == "FINISHED"
ERROR == "ERROR"
FILE_NOT_FOUND == "FILE_NOT_FOUND"

\* the status of a new StartTransferResponse(): the first value of the enum
DefaultStatus == TRANSFER

\* Target.UNKNOWN
UNKNOWN == "UNKNOWN"

\* StartTransferRequest()
StartTransferRequest ==
    [filename |-> "", chunks |-> 0, hash |-> EmptyHash, target |-> UNKNOWN]

\* StartTransferResponse()
StartTransferResponse ==
    [filename |-> "", chunks |-> 0, next_chunk |-> 0, hash |-> EmptyHash,
     size |-> 0, status |-> DefaultStatus]

\* request.to_json(): the fields that differ from their defaults
ToJson(request) ==
    [f \in {g \in DOMAIN request : request[g] # StartTransferRequest[g]} |-> request[f]]

\* request.from_json(text): the fields of the text are set, the others kept
FromJson(request, json) ==
    [f \in DOMAIN request |-> IF f \in DOMAIN json THEN json[f] ELSE request[f]]

\* the directory without request.json
NoMarker == [exists |-> FALSE]

\* request.json as written by set_request
Marker(request) == [exists |-> TRUE, valid |-> TRUE, json |-> ToJson(request)]

\* request.json with a text that from_json rejects
CorruptMarker == [exists |-> TRUE, valid |-> FALSE]

\* no chunk{N}.bin at all
NoChunks == [i \in {} |-> <<>>]

\* an empty download directory
EmptyDisk == [marker |-> NoMarker, chunks |-> NoChunks, final |-> [exists |-> FALSE]]

\* HLDownload.__init__ up to the call of _resume_download
HLDownload_new == [request |-> StartTransferRequest, response |-> StartTransferResponse]

\* variant of HLDownload_delete_chunks: the artifacts stay
HLDownload_delete_chunks_kept(d) == d

\* HLDownload._delete_chunks
HLDownload_delete_chunks(d) == [d EXCEPT !.chunks = NoChunks]

\* HLDownload._reset(request)
HLDownload_reset(request) ==
    [request |-> request,
     response |-> [StartTransferResponse EXCEPT !.chunks = request.chunks,
                                                 !.filename = request.filename,
                                                 !.status = TRANSFER]]

\* len(list(glob('chunk*.bin')))
CountChunks(d) == Cardinality(DOMAIN d.chunks)

\* _resume_download can stat chunk0.bin when it needs its size
ResumeCanStat(d) == CountChunks(d) > 0 => 0 \in DOMAIN d.chunks

\* variant of HLDownload_resume_download: a request.json that does not
\* deserialize is left on disk
HLDownload_resume_download_keeps(d) ==
    IF ~d.marker.exists
    THEN [dl |-> HLDownload_new, disk |-> HLDownload_delete_chunks(d)]
    ELSE IF ~d.marker.valid
    THEN [dl |-> HLDownload_new, disk |-> HLDownload_delete_chunks(d)]
    ELSE LET st == HLDownload_reset(FromJson(StartTransferRequest, d.marker.json))
             n == CountChunks(d)
         IN  [dl |-> [st EXCEPT !.response.next_chunk = n,
                                !.response.size = IF n > 0
                                                  THEN Len(d.chunks[0]) * n
                                                  ELSE @],
              disk |-> d]

\* HLDownload._resume_download on directory d: the session and the directory
\* afterwards (for a valid marker with artifacts, chunk0.bin exists)
HLDownload_resume_download(d) ==
    IF ~d.marker.exists
    THEN [dl |-> HLDownload_new, disk |-> HLDownload_delete_chunks(d)]
    ELSE IF ~d.marker.valid
    THEN [dl |-> HLDownload_new,
          disk |-> HLDownload_delete_chunks([d EXCEPT !.marker = NoMarker])]
    ELSE LET st == HLDownload_reset(FromJson(StartTransferRequest, d.marker.json))
             n == CountChunks(d)
         IN  [dl |-> [st EXCEPT !.response.next_chunk = n,
                                !.response.size = IF n > 0
                                                  THEN Len(d.chunks[0]) * n
                                                  ELSE @],
              disk |-> d]

\* variant of IsNewTransfer: only the hash is compared
IsNewTransfer_hashonly(st, request) == st.request.hash # request.hash

\* the test of set_request for a new transfer
IsNewTransfer(st, request) ==
    st.request.hash # request.hash \/ st.response.status # TRANSFER

\* variant of HLDownload_set_request: every request starts a new transfer
HLDownload_set_request_always(st, d, request) ==
    [dl |-> HLDownload_reset(request),
     disk |-> HLDownload_delete_chunks([d EXCEPT !.marker = Marker(request)])]

\* HLDownload.set_request(request)
HLDownload_set_request(st, d, request) ==
    IF IsNewTransfer(st, request)
    THEN [dl |-> HLDownload_reset(request),
          disk |-> HLDownload_delete_chunks([d EXCEPT !.marker = Marker(request)])]
    ELSE [dl |-> st, disk |-> d]

\* variant of HLDownload_get_response: only a zero total is an error
HLDownload_get_response_zero(st) ==
    IF st.response.chunks = 0
    THEN [st EXCEPT !.response.status = ERROR]
    ELSE st

\* HLDownload.get_response: the session afterwards (its response is returned)
HLDownload_get_response(st) ==
    IF st.response.chunks = 0
    THEN [st EXCEPT !.response.status = ERROR]
    ELSE IF st.response.next_chunk > st.response.chunks
    THEN [st EXCEPT !.response.status = ERROR]
    ELSE st

\* the artifacts chunk0.bin .. chunk{n-1}.bin joined, up to the first missing one
RECURSIVE ConcatChunks(_, _, _)
ConcatChunks(chunks, i, n) ==
    IF i >= n \/ i \notin DOMAIN chunks THEN <<>>
    ELSE chunks[i] \o ConcatChunks(chunks, i + 1, n)

\* variant of AllReceived: one chunk late
AllReceived_late(response) == response.next_chunk > response.chunks

\* the test of add_chunk for the last chunk
AllReceived(response) == response.next_chunk = response.chunks

\* variant of FinishedCallback: the file path is passed whatever the status
FinishedCallback_path(st, status) ==
    <<[path |-> st.request.filename, target |-> st.request.target]>>

\* the cb_finished call at the end of _transfer_finished
FinishedCallback(st, status) ==
    IF status = FINISHED
    THEN <<[path |-> st.request.filename, target |-> st.request.target]>>
    ELSE <<[path |-> "None", target |-> UNKNOWN]>>

\* HLDownload._transfer_finished: session, directory, the cb_finished calls,
\* and whether an exception left the function early
HLDownload_transfer_finished(st, d) ==
    LET n == st.response.chunks
        content == ConcatChunks(d.chunks, 0, n)
        written == [d EXCEPT !.final = [exists |-> TRUE, name |-> st.request.filename,
                                        data |-> content]]
        status == IF MD5(content) = st.request.hash THEN FINISHED ELSE ERROR
    IN  IF \E i \in 0..(n - 1) : i \notin DOMAIN d.chunks
        THEN [dl |-> st, disk |-> written, cb |-> <<>>, raised |-> TRUE]
        ELSE IF ~d.marker.exists
        THEN [dl |-> [st EXCEPT !.response.status = status], disk |-> written,
              cb |-> <<>>, raised |-> TRUE]
        ELSE [dl |-> [st EXCEPT !.response.status = status],
              disk |-> [written EXCEPT !.marker = NoMarker],
              cb |-> FinishedCallback(st, status),
              raised |-> FALSE]

\* HLDownload.add_chunk(chunk)
HLDownload_add_chunk(st, d, chunk) ==
    LET idx == st.response.next_chunk
        st1 == [st EXCEPT !.response.hash = MD5(chunk),
                          !.response.next_chunk = idx + 1]
        d1 == [d EXCEPT !.chunks = [i \in DOMAIN d.chunks \cup {idx} |->
                                       IF i = idx THEN chunk ELSE d.chunks[i]]]
        fin == IF AllReceived(st1.response)
               THEN HLDownload_transfer_finished(st1, d1)
               ELSE [dl |-> st1, disk |-> d1, cb |-> <<>>, raised |-> FALSE]
    IN  IF fin.raised
        THEN fin
        ELSE [fin EXCEPT !.dl.response.size = @ + Len(chunk)]

(* -------------------------- download harness -------------------------- *)
\* most super-chunks a request declares
MaxChunks == 2

\* the super-chunks a peer delivers
SuperChunks == {<<0>>, <<1, 1>>}

\* a file of n super-chunks
RECURSIVE IntendedFile(_)
IntendedFile(n) ==
    IF n = 0 THEN <<>>
    ELSE IntendedFile(n - 1) \o (IF n % 2 = 1 THEN <<0>> ELSE <<1, 1>>)

\* the requests a peer sends
Requests ==
    [filename : {"a", "b"},
     chunks : 0..MaxChunks,
     hash : {EmptyHash} \cup {MD5(IntendedFile(n)) : n \in 1..MaxChunks},
     target : {"SOFTWARE"}]

\* no download session is being looked at
DlIdle ==
    /\ dl = HLDownload_new
    /\ disk = EmptyDisk
    /\ d_op = "init"
    /\ d_accepted = FALSE
    /\ d_received = <<>>
    /\ d_cb = <<>>
    /\ d_arg = StartTransferRequest
    /\ d_crash = "none"

\* the process restarts: a new HLDownload on the same directory
Restart ==
    /\ ResumeCanStat(disk)
    /\ LET res == HLDownload_resume_download(disk)
       IN  /\ dl' = res.dl
           /\ disk' = res.disk
           /\ d_accepted' = (disk.marker.exists /\ disk.marker.valid)
           /\ d_received' = IF d_accepted' THEN d_received ELSE <<>>
           /\ d_cb' = IF d_accepted' THEN d_cb ELSE <<>>
           /\ d_crash' = IF d_accepted' THEN d_crash ELSE "none"
    /\ d_op' = "restart"
    /\ d_arg' = StartTransferRequest
    /\ UNCHANGED <<llVars, ulVars>>

\* by the protocol a request starts a new transfer when its hash differs from
\* the tracked one or no transfer is in progress
StartsNew(request) ==
    request.hash # dl.request.hash \/ dl.response.status # TRANSFER

\* the peer sends a request
SetRequest(request) ==
    /\ LET res == HLDownload_set_request(dl, disk, request)
       IN  /\ dl' = res.dl
           /\ disk' = res.disk
    /\ IF StartsNew(request)
       THEN /\ d_accepted' = TRUE
            /\ d_received' = <<>>
            /\ d_cb' = <<>>
            /\ d_op' = "set_request"
            /\ d_arg' = request
            /\ d_crash' = "none"
       ELSE /\ UNCHANGED <<d_accepted, d_received, d_cb, d_crash>>
            /\ d_op' = "reannounce"
            /\ d_arg' = StartTransferRequest
    /\ UNCHANGED <<llVars, ulVars>>

\* the peer asks for the response
GetResponse ==
    /\ dl' = HLDownload_get_response(dl)
    /\ d_op' = "get_response"
    /\ d_arg' = StartTransferRequest
    /\ UNCHANGED <<disk, d_accepted, d_received, d_cb, d_crash>>
    /\ UNCHANGED <<llVars, ulVars>>

\* the receiver delivers a complete super-chunk
AddChunk(chunk) ==
    /\ dl.response.next_chunk <= MaxChunks
    /\ LET res == HLDownload_add_chunk(dl, disk, chunk)
       IN  /\ dl' = res.dl
           /\ disk' = res.disk
           /\ d_cb' = d_cb \o res.cb
    /\ d_received' = Append(d_received, chunk)
    /\ d_op' = "add_chunk"
    /\ d_arg' = StartTransferRequest
    /\ UNCHANGED <<d_accepted, d_crash>>
    /\ UNCHANGED <<llVars, ulVars>>

\* the text of request.json is damaged on disk (a torn or truncated write)
DamageMarker ==
    /\ disk.marker.exists
    /\ disk.marker.valid
    /\ disk' = [disk EXCEPT !.marker = CorruptMarker]
    /\ d_op' = "damage"
    /\ d_arg' = StartTransferRequest
    /\ UNCHANGED <<dl, d_accepted, d_received, d_cb, d_crash>>
    /\ UNCHANGED <<llVars, ulVars>>

NextDL ==
    \/ Restart
    \/ DamageMarker
    \/ \E request \in Requests : SetRequest(request)
    \/ GetResponse
    \/ \E chunk \in SuperChunks : AddChunk(chunk)

(* ------------------------------ HLUpload ------------------------------ *)
\* HLUpload.__init__
HLUpload_new ==
    [response |-> StartTransferResponse,
     gen |-> [state |-> "none", pos |-> 0, short |-> FALSE]]

\* upload_file.exists(): the upload root holds the one file "f"
Exists(filename) == filename = "f"

\* HLUpload._reset(request) with the file's bytes and the chunk size
HLUpload_reset(u, request, file, chunk_size) ==
    LET fresh == [StartTransferResponse EXCEPT !.filename = request.filename]
    IN  IF ~Exists(request.filename)
        THEN [u EXCEPT !.response = [fresh EXCEPT !.status = FILE_NOT_FOUND]]
        ELSE [response |-> [fresh EXCEPT !.chunks = Ceil(Len(file), chunk_size),
                                         !.status = TRANSFER],
              gen |-> [state |-> "run", pos |-> 0, short |-> FALSE]]

\* variant of HLUpload_set_request: an acknowledgement beyond the total is an
\* error
HLUpload_set_request_strict(u, request, file, chunk_size) ==
    IF request.hash = EmptyHash
    THEN HLUpload_reset(u, request, file, chunk_size)
    ELSE IF u.response.next_chunk >= u.response.chunks
    THEN [u EXCEPT !.response.next_chunk = @ + 1, !.response.status = ERROR]
    ELSE [u EXCEPT !.response.next_chunk = @ + 1]

\* HLUpload.set_request(request)
HLUpload_set_request(u, request, file, chunk_size) ==
    IF request.hash = EmptyHash
    THEN HLUpload_reset(u, request, file, chunk_size)
    ELSE [u EXCEPT !.response.next_chunk = @ + 1]

\* HLUpload._split resumed by __next__: TRUE when it yields another read
UploadYields(g) == g.state = "run" /\ ~g.short

\* HLUpload._split resumed by __next__: the bytes f_in.read(chunk_size) returns
UploadRead(g, file, chunk_size) == Slice(file, g.pos, chunk_size)

\* variant of HLUpload_get_response: the status is not looked at
HLUpload_get_response_anystatus(u, s, file, chunk_size) ==
    IF UploadYields(u.gen)
    THEN LET data == UploadRead(u.gen, file, chunk_size)
         IN  [ul |-> [u EXCEPT !.gen.pos = @ + Len(data),
                               !.gen.short = (Len(data) # chunk_size),
                               !.response.hash = Prefix2(MD5(data)),
                               !.response.size = @ + Len(data)],
              sender |-> LLSender_send(s, data),
              sent |-> <<data>>]
    ELSE [ul |-> [u EXCEPT !.gen.state = "done",
                           !.response.status = FINISHED,
                           !.response.hash = EmptyHash],
          sender |-> s, sent |-> <<>>]

\* variant of HLUpload_get_response: the hash of the last super-chunk stays
\* in the response when the file is exhausted
HLUpload_get_response_keephash(u, s, file, chunk_size) ==
    IF u.response.status # TRANSFER
    THEN [ul |-> u, sender |-> s, sent |-> <<>>]
    ELSE IF UploadYields(u.gen)
    THEN LET data == UploadRead(u.gen, file, chunk_size)
         IN  [ul |-> [u EXCEPT !.gen.pos = @ + Len(data),
                               !.gen.short = (Len(data) # chunk_size),
                               !.response.hash = Prefix2(MD5(data)),
                               !.response.size = @ + Len(data)],
              sender |-> LLSender_send(s, data),
              sent |-> <<data>>]
    ELSE [ul |-> [u EXCEPT !.gen.state = "done",
                           !.response.status = FINISHED],
          sender |-> s, sent |-> <<>>]

\* HLUpload.get_response: the session and the sender afterwards, and the
\* super-chunks handed to LLSender.send (u.gen.state # "none" while TRANSFER)
HLUpload_get_response(u, s, file, chunk_size) ==
    IF u.response.status # TRANSFER
    THEN [ul |-> u, sender |-> s, sent |-> <<>>]
    ELSE IF UploadYields(u.gen)
    THEN LET data == UploadRead(u.gen, file, chunk_size)
         IN  [ul |-> [u EXCEPT !.gen.pos = @ + Len(data),
                               !.gen.short = (Len(data) # chunk_size),
                               !.response.hash = Prefix2(MD5(data)),
                               !.response.size = @ + Len(data)],
              sender |-> LLSender_send(s, data),
              sent |-> <<data>>]
    ELSE [ul |-> [u EXCEPT !.gen.state = "done",
                           !.response.status = FINISHED,
                           !.response.hash = EmptyHash],
          sender |-> s, sent |-> <<>>]

(* --------------------------- upload harness --------------------------- *)
\* longest file under the upload root
MaxFile == 3
\* largest super-chunk size (HLUpload chunk_size) tried
MaxChunkSize == 2
\* most acknowledgements sent to one upload session before a new upload
MaxAcks == 3

\* the requests a peer sends to the upload session
UploadRequests ==
    [filename : {"f", "g"},
     chunks : {0},
     hash : {EmptyHash} \cup (0..(PrefixSpace - 1)),
     target : {UNKNOWN}]

\* no upload session is being looked at
UlIdle ==
    /\ ul = HLUpload_new
    /\ up = [file |-> <<>>, chunk_size |-> 1]
    /\ u_accepted = FALSE
    /\ u_sent = <<>>

\* HLUpload(root, LLSender(mtu), chunk_size) with a file "f" under the root
InitUL ==
    /\ ul = HLUpload_new
    /\ \E file \in BoundedSeq(Bytes, MaxFile), c \in 1..MaxChunkSize :
          up = [file |-> file, chunk_size |-> c]
    /\ u_accepted = FALSE
    /\ u_sent = <<>>
    /\ \E m \in Mtus : sender = LLSender_init(m)
    /\ receiver = LLReceiver_init
    /\ wire = "none"
    /\ ret = "none"
    /\ delivered = <<>>
    /\ h_mode = "idle"
    /\ h_read = FALSE
    /\ h_last = [kind |-> "none"]
    /\ h_pulled = <<>>
    /\ h_rx = NoReception
    /\ DlIdle

\* the peer sends a request: a new upload (empty hash) or an acknowledgement
USetRequest(request) ==
    /\ request.hash # EmptyHash => ul.response.next_chunk < MaxAcks
    /\ ul' = HLUpload_set_request(ul, request, up.file, up.chunk_size)
    /\ IF request.hash = EmptyHash
       THEN u_accepted' = Exists(request.filename) /\ u_sent' = <<>>
       ELSE UNCHANGED <<u_accepted, u_sent>>
    /\ UNCHANGED <<up, llVars, dlVars>>

\* the peer asks for the response; before any upload the generator is None
\* and the call raises, leaving the session as it was
UGetResponse ==
    /\ IF ul.response.status = TRANSFER /\ ul.gen.state = "none"
       THEN UNCHANGED <<ul, sender, u_sent, h_pulled>>
       ELSE LET res == HLUpload_get_response(ul, sender, up.file, up.chunk_size)
            IN  /\ ul' = res.ul
                /\ sender' = res.sender
                /\ u_sent' = u_sent \o res.sent
                /\ h_pulled' = IF res.sent = <<>> THEN h_pulled ELSE <<>>
    /\ UNCHANGED <<up, u_accepted, dlVars>>
    /\ UNCHANGED <<wire, receiver, ret, delivered, h_mode, h_read, h_last, h_rx>>

(* ------------------------- link-level harness ------------------------- *)
Payloads == BoundedSeq(Bytes, MaxLen)
NoFeed == [kind |-> "none"]

\* a fresh LLSender(mtu=m) and a fresh LLReceiver, then sender.send(B);
\* each behaviour of the harness follows one stream
Begin(B, m) ==
    /\ h_mode = "idle"
    /\ sender' = LLSender_send(LLSender_init(m), B)
    /\ receiver' = LLReceiver_init
    /\ wire' = "none"
    /\ ret' = "none"
    /\ delivered' = <<>>
    /\ h_mode' = "clean"
    /\ h_read' = FALSE
    /\ h_last' = NoFeed
    /\ h_pulled' = <<>>
    /\ UNCHANGED h_rx
    /\ UNCHANGED <<dlVars, ulVars>>

\* frame = sender.get_chunk(), once the frame pulled before was consumed
Pull ==
    /\ sender.gen # "none"
    /\ wire # "ref"
    /\ sender' = LLSender_get_chunk(sender)
    /\ wire' = IF SplitYields(sender) THEN "ref" ELSE "eos"
    /\ h_pulled' = IF SplitYields(sender)
                   THEN Append(h_pulled, sender'.transfer_data)
                   ELSE h_pulled
    /\ UNCHANGED h_mode
    /\ UNCHANGED <<receiver, ret, delivered, h_read, h_last, h_rx>>
    /\ UNCHANGED <<dlVars, ulVars>>

\* receiver.new_chunk(frame) with the harness bookkeeping
FeedFrame(frame, kind) ==
    LET res == LLReceiver_new_chunk(receiver, frame)
    IN  /\ receiver' = res.rcv
        /\ ret' = res.ret
        /\ delivered' = delivered \o res.cb
        /\ h_last' = IF kind = "faithful" THEN h_last ELSE [kind |-> kind, frame |-> frame]
        /\ wire' = "none"
        /\ UNCHANGED <<sender, h_read, h_pulled, h_rx>>
        /\ UNCHANGED <<dlVars, ulVars>>

\* the pulled data frame is fed as it is
Feed ==
    /\ wire = "ref"
    /\ FeedFrame(WireFrame, "faithful")
    /\ UNCHANGED h_mode

\* the pulled frame is fed with its sequence index changed to v; once per stream
FeedAlteredSeq(v) ==
    /\ wire = "ref"
    /\ h_mode = "clean"
    /\ v # WireFrame.current_chunk
    /\ FeedFrame([WireFrame EXCEPT !.current_chunk = v], "seq")
    /\ h_mode' = "seqAltered"

\* the pulled frame is fed with its data changed to d; once per stream
FeedAlteredData(d) ==
    /\ wire = "ref"
    /\ h_mode = "clean"
    /\ d # WireFrame.data
    /\ FeedFrame([WireFrame EXCEPT !.data = d], "data")
    /\ h_mode' = "dataAltered"

\* the consumer reads receiver.data
ReadData ==
    /\ receiver' = LLReceiver_data(receiver)
    /\ h_read' = TRUE
    /\ UNCHANGED <<sender, wire, ret, delivered, h_mode, h_last, h_pulled, h_rx>>
    /\ UNCHANGED <<dlVars, ulVars>>

\* sequence indexes an altered frame may carry
AlteredIndexes == -1..(MaxLen + 1)

InitLL ==
    /\ \E m \in Mtus : sender = LLSender_init(m)
    /\ receiver = LLReceiver_init
    /\ wire = "none"
    /\ ret = "none"
    /\ delivered = <<>>
    /\ h_mode = "idle"
    /\ h_read = FALSE
    /\ h_last = NoFeed
    /\ h_pulled = <<>>
    /\ h_rx = NoReception
    /\ DlIdle
    /\ UlIdle

NextLL ==
    \/ \E B \in Payloads, m \in Mtus : Begin(B, m)
    \/ Pull
    \/ Feed
    \/ \E v \in AlteredIndexes : FeedAlteredSeq(v)
    \/ \E d \in BoundedSeq(Bytes, MaxPayloadSize) : FeedAlteredData(d)
    \/ ReadData

SpecLL == InitLL /\ [][NextLL]_vars

(* --------------------------- sender harness --------------------------- *)
\* LLSender(mtu) for any MTU tried
InitSD ==
    /\ \E m \in Mtus : sender = LLSender_init(m)
    /\ receiver = LLReceiver_init
    /\ wire = "none"
    /\ ret = "none"
    /\ delivered = <<>>
    /\ h_mode = "idle"
    /\ h_read = FALSE
    /\ h_last = NoFeed
    /\ h_pulled = <<>>
    /\ h_rx = NoReception
    /\ DlIdle
    /\ UlIdle

\* sender.send(B), at any time; h_mode tells whether it came in the middle of
\* a sequence (some frames pulled, more to come) or not
Send(B) ==
    /\ sender' = LLSender_send(sender, B)
    /\ h_pulled' = <<>>
    /\ h_mode' = IF /\ sender.gen = "run"
                    /\ h_pulled # <<>>
                    /\ sender.pos < Len(sender.data)
                 THEN "interrupting"
                 ELSE "starting"
    /\ UNCHANGED <<wire, receiver, ret, delivered, h_read, h_last, h_rx>>
    /\ UNCHANGED <<dlVars, ulVars>>

\* sender.get_chunk(), at any time after the first send (before it the
\* generator is None); the frame returned is serialized at once
GetChunk ==
    /\ sender.gen # "none"
    /\ sender' = LLSender_get_chunk(sender)
    /\ wire' = IF SplitYields(sender) THEN "ref" ELSE "eos"
    /\ h_pulled' = IF SplitYields(sender)
                   THEN Append(h_pulled, sender'.transfer_data)
                   ELSE h_pulled
    /\ UNCHANGED <<receiver, ret, delivered, h_mode, h_read, h_last, h_rx>>
    /\ UNCHANGED <<dlVars, ulVars>>

NextSD ==
    \/ \E B \in Payloads : Send(B)
    \/ GetChunk

SpecSD == InitSD /\ [][NextSD]_vars

(* -------------------------- receiver harness -------------------------- *)
\* largest total a frame declares
MaxTotal == 2

\* a frame with a hash that matches its data or one that does not
FrameWith(index, total, data, good) ==
    [current_chunk |-> index, overall_chunks |-> total, data |-> data,
     hash |-> IF good
              THEN Prefix2(MD5(data))
              ELSE (Prefix2(MD5(data)) + 1) % PrefixSpace]

\* the data the frames carry
FrameData == {<<0>>, <<1>>}

\* the frames a peer may send, in any order
Frames ==
    {FrameWith(index, total, data, good) :
        index \in 0..MaxTotal, total \in 0..MaxTotal,
        data \in FrameData, good \in BOOLEAN}

\* LLReceiver() with a callback registered
InitRC ==
    /\ sender = LLSender_init(PAYLOAD_HEADER_SIZE + 1)
    /\ receiver = LLReceiver_init
    /\ wire = "none"
    /\ ret = "none"
    /\ delivered = <<>>
    /\ h_mode = "idle"
    /\ h_read = FALSE
    /\ h_last = NoFeed
    /\ h_pulled = <<>>
    /\ h_rx = NoReception
    /\ DlIdle
    /\ UlIdle

\* receiver.new_chunk(frame) for any frame
FeedAny(frame) ==
    LET res == LLReceiver_new_chunk(receiver, frame)
        base == IF frame.current_chunk = 0
                THEN [NoReception EXCEPT !.started = TRUE,
                                         !.total = frame.overall_chunks]
                ELSE h_rx
    IN  /\ receiver' = res.rcv
        /\ ret' = res.ret
        /\ h_rx' = [base EXCEPT !.accepted = IF res.acc THEN @ + 1 ELSE @,
                                !.joined = IF res.acc THEN @ \o frame.data ELSE @,
                                !.rejected = @ \/ ~res.acc,
                                !.calls = @ \o res.cb,
                                !.op = "feed",
                                !.frame = frame]
        /\ UNCHANGED <<sender, wire, delivered, h_mode, h_read, h_last, h_pulled>>
        /\ UNCHANGED <<dlVars, ulVars>>

\* the consumer reads receiver.data
ReadBuffer ==
    /\ receiver' = LLReceiver_data(receiver)
    /\ h_rx' = [h_rx EXCEPT !.op = "read"]
    /\ UNCHANGED <<sender, wire, ret, delivered, h_mode, h_read, h_last, h_pulled>>
    /\ UNCHANGED <<dlVars, ulVars>>

NextRC ==
    \/ \E frame \in Frames : FeedAny(frame)
    \/ ReadBuffer

SpecRC == InitRC /\ [][NextRC]_vars

\* the link level stays as built
LlIdle ==
    /\ sender = LLSender_init(PAYLOAD_HEADER_SIZE + 1)
    /\ receiver = LLReceiver_init
    /\ wire = "none"
    /\ ret = "none"
    /\ delivered = <<>>
    /\ h_mode = "idle"
    /\ h_read = FALSE
    /\ h_last = [kind |-> "none"]
    /\ h_pulled = <<>>
    /\ h_rx = NoReception

\* HLDownload(...) built on an empty directory
InitDL ==
    /\ dl = HLDownload_new
    /\ disk = EmptyDisk
    /\ d_op = "init"
    /\ d_accepted = FALSE
    /\ d_received = <<>>
    /\ d_cb = <<>>
    /\ d_arg = StartTransferRequest
    /\ d_crash = "none"
    /\ LlIdle
    /\ UlIdle

SpecDL == InitDL /\ [][NextDL]_vars

(* ---------------------------- crash harness --------------------------- *)
\* the requests of the crash scenarios: a file of n super-chunks and its hash
CrashRequests ==
    {[filename |-> "a", chunks |-> n, hash |-> MD5(IntendedFile(n)),
      target |-> "SOFTWARE"] : n \in 1..MaxChunks}

\* the directory after add_chunk wrote chunk{next_chunk}.bin
ChunkWritten(st, d, chunk) ==
    [d EXCEPT !.chunks = [i \in DOMAIN d.chunks \cup {st.response.next_chunk} |->
                            IF i = st.response.next_chunk THEN chunk ELSE d.chunks[i]]]

\* the session is lost or resumed by the restart that follows a crash inside
\* add_chunk(chunk)
ResumedAfterChunk(d, chunk, op) ==
    /\ ResumeCanStat(d)
    /\ LET res == HLDownload_resume_download(d)
       IN  /\ dl' = res.dl
           /\ disk' = res.disk
    /\ d_accepted' = (d.marker.exists /\ d.marker.valid)
    /\ d_received' = IF d_accepted' THEN Append(d_received, chunk) ELSE <<>>
    /\ d_cb' = IF d_accepted' THEN d_cb ELSE <<>>
    /\ d_crash' = IF d_accepted' THEN d_crash ELSE "none"
    /\ d_op' = op
    /\ d_arg' = StartTransferRequest
    /\ UNCHANGED <<llVars, ulVars>>

\* the process dies inside set_request(request) for a new transfer, after
\* request.json was written and before _delete_chunks ran, and starts again
CrashInSetRequest(request) ==
    /\ IsNewTransfer(dl, request)
    /\ LET written == [disk EXCEPT !.marker = Marker(request)]
           res == HLDownload_resume_download(written)
       IN  /\ ResumeCanStat(written)
           /\ dl' = res.dl
           /\ disk' = res.disk
    /\ d_accepted' = TRUE
    /\ d_received' = <<>>
    /\ d_cb' = <<>>
    /\ d_crash' = "accept"
    /\ d_op' = "crash_set_request"
    /\ d_arg' = request
    /\ UNCHANGED <<llVars, ulVars>>

\* the process dies inside add_chunk(chunk), after the chunk file was written
\* and before _transfer_finished was entered, and starts again
CrashInAddChunk(chunk) ==
    /\ dl.response.next_chunk <= MaxChunks
    /\ ResumedAfterChunk(ChunkWritten(dl, disk, chunk), chunk, "crash_add_chunk")

\* the process dies inside _transfer_finished for the last chunk, after the
\* final file was written and before request.json was unlinked, and starts again
CrashInTransferFinished(chunk) ==
    LET st1 == [dl EXCEPT !.response.hash = MD5(chunk),
                          !.response.next_chunk = @ + 1]
        d1 == ChunkWritten(dl, disk, chunk)
        fin == HLDownload_transfer_finished(st1, d1)
    IN  /\ AllReceived(st1.response)
        /\ ~fin.raised
        /\ ResumedAfterChunk([fin.disk EXCEPT !.marker = d1.marker], chunk,
                             "crash_transfer_finished")

\* a set_request that does not start a new transfer
Reannounce ==
    \E request \in CrashRequests : ~StartsNew(request) /\ SetRequest(request)

\* the peer delivers the super-chunk the response asks for
DeliverNext ==
    /\ dl.response.status = TRANSFER
    /\ dl.response.next_chunk < dl.response.chunks
    /\ \E chunk \in SuperChunks : AddChunk(chunk)

NextCR ==
    \/ Restart
    \/ \E request \in CrashRequests : SetRequest(request)
    \/ GetResponse
    \/ \E chunk \in SuperChunks : AddChunk(chunk)
    \/ \E request \in CrashRequests : CrashInSetRequest(request)
    \/ \E chunk \in SuperChunks : CrashInAddChunk(chunk)
    \/ \E chunk \in SuperChunks : CrashInTransferFinished(chunk)

\* the download session with a process that can die inside set_request and
\* inside add_chunk
SpecCR == InitDL /\ [][NextCR]_vars

\* the same, with a peer that keeps asking for the response, keeps announcing
\* its request and delivers every super-chunk the response asks for
SpecCRFair ==
    /\ InitDL
    /\ [][NextCR]_vars
    /\ WF_vars(GetResponse)
    /\ WF_vars(Reannounce)
    /\ WF_vars(DeliverNext)

NextUL ==
    \/ \E request \in UploadRequests : USetRequest(request)
    \/ UGetResponse
    \/ Pull

SpecUL == InitUL /\ [][NextUL]_vars

\* the requests and response queries of the peer, without the frames it pulls
NextULPoll ==
    \/ \E request \in UploadRequests : USetRequest(request)
    \/ UGetResponse

\* HLUpload(root, LLSender(mtu), chunk_size) with a file "f" of zero bytes, of
\* any length, under the root
InitULPoll ==
    /\ ul = HLUpload_new
    /\ \E n \in 0..MaxFile, c \in 1..MaxChunkSize :
          up = [file |-> [i \in 1..n |-> 0], chunk_size |-> c]
    /\ u_accepted = FALSE
    /\ u_sent = <<>>
    /\ sender = LLSender_init(PAYLOAD_HEADER_SIZE + 1)
    /\ receiver = LLReceiver_init
    /\ wire = "none"
    /\ ret = "none"
    /\ delivered = <<>>
    /\ h_mode = "idle"
    /\ h_read = FALSE
    /\ h_last = [kind |-> "none"]
    /\ h_pulled = <<>>
    /\ h_rx = NoReception
    /\ DlIdle

\* the peer keeps asking for the response as long as a call changes anything
SpecULFair == InitULPoll /\ [][NextULPoll]_vars /\ WF_vars(UGetResponse)

(* --------------------------- the whole program ------------------------ *)
\* the sessions and the link level as constructed, for any MTU and upload file
Init == InitUL

Next == NextLL \/ NextDL \/ NextCR \/ NextUL

Spec == Init /\ [][Next]_vars

(* ----------------------- claims on the link level --------------------- *)
\* the harness fed every data frame of the stream, unaltered and in order, to
\* a receiver that was fresh when the stream began, and the sender is exhausted
CleanDone == h_mode = "clean" /\ sender.gen = "done"

\* the receiver is complete with the sender's payload
Complete ==
    /\ receiver.remaining_chunks = 0
    /\ receiver.error = NONE
    /\ receiver.data = sender.data
    /\ (~h_read => receiver.new_data)

\* C1 as stated: for every payload, the empty one included, feeding all frames
\* of LLSender in order into a fresh LLReceiver leaves the receiver complete
\* (remaining 0, new_data set, error NONE) with data equal to the payload.
C1_RoundTripAnyPayload == CleanDone => Complete

\* C1 amended: the round trip holds for every non-empty payload, and the buffer
\* is delivered to the consumer exactly once; for the empty payload the sender
\* yields no data frame and the receiver stays as constructed (new_data unset,
\* nothing delivered).
C1_RoundTrip ==
    CleanDone =>
        IF sender.data # <<>>
        THEN Complete /\ delivered = <<sender.data>>
        ELSE receiver = LLReceiver_init /\ delivered = <<>> /\ ret = "none"

\* C1 witness: a payload of several frames, the last one short, went through
C1_Witness ==
    /\ CleanDone
    /\ Len(sender.data) = 3
    /\ sender.size = 2
    /\ receiver.new_data
    /\ receiver.data = sender.data
    /\ delivered = <<sender.data>>

\* C5 as stated: a stream with the sequence index of one frame changed, fed in
\* order to a fresh receiver, sets error WRONG_SEQUENCE and never delivers a
\* buffer (callback not invoked, new_data not set).
C5_SequenceViolation ==
    /\ h_mode = "seqAltered" => (delivered = <<>> /\ ~receiver.new_data)
    /\ (h_mode = "seqAltered" /\ sender.gen = "done") => receiver.error = WRONG_SEQUENCE

\* C5, the part that the code keeps: no buffer is delivered
C5_NoDelivery == h_mode = "seqAltered" => (delivered = <<>> /\ ~receiver.new_data)

\* C6: a frame of a valid stream whose data was changed so that its truncated
\* hash differs from the declared one makes new_chunk return -1 with error
\* WRONG_HASH; its data is not appended and the remaining counter is not
\* decremented (for the frame with index 0 they are the reset values).
C6_HashViolation ==
    [][(/\ h_mode = "clean"
        /\ h_mode' = "dataAltered"
        /\ Prefix2(MD5(h_last'.frame.data)) # h_last'.frame.hash)
       => (/\ ret' = -1
           /\ receiver'.error = WRONG_HASH
           /\ delivered' = delivered
           /\ ~receiver'.new_data
           /\ IF h_last'.frame.current_chunk = 0
              THEN /\ receiver'.data = <<>>
                   /\ receiver'.remaining_chunks = h_last'.frame.overall_chunks
              ELSE /\ receiver'.data = receiver.data
                   /\ receiver'.remaining_chunks = receiver.remaining_chunks)]_vars

\* C6 witness: a later frame of a stream was corrupted and rejected, with part
\* of the payload already assembled
C6_Witness ==
    /\ h_mode = "dataAltered"
    /\ h_last.kind = "data"
    /\ h_last.frame.current_chunk > 0
    /\ Prefix2(MD5(h_last.frame.data)) # h_last.frame.hash
    /\ ret = -1
    /\ receiver.error = WRONG_HASH
    /\ receiver.data # <<>>
    /\ receiver.remaining_chunks > 0

(* ------------------------- claims on LLReceiver ----------------------- *)
\* this step is a new_chunk call
FedNow == h_rx'.op = "feed" /\ <<receiver, ret, h_rx>>' # <<receiver, ret, h_rx>>

\* the frame of this new_chunk call
FrameNow == h_rx'.frame

\* this new_chunk call joined its frame to the data
AcceptedNow ==
    h_rx'.accepted = (IF FrameNow.current_chunk = 0 THEN 0 ELSE h_rx.accepted) + 1

\* the buffers this new_chunk call passed to cb_new_data
CallsNow ==
    IF FrameNow.current_chunk = 0
    THEN h_rx'.calls
    ELSE SubSeq(h_rx'.calls, Len(h_rx.calls) + 1, Len(h_rx'.calls))

\* C21 as stated: after new_chunk rejected a frame, no later frame causes the
\* callback or sets new_data unless a frame with index 0 restarted the
\* reception in between; and whenever a buffer is delivered the error is NONE.
C21_AbortOnError ==
    /\ [][(FedNow /\ h_rx.rejected /\ FrameNow.current_chunk # 0) =>
            (CallsNow = <<>> /\ (receiver'.new_data => receiver.new_data))]_vars
    /\ [][(FedNow /\ CallsNow # <<>>) => receiver'.error = NONE]_vars

\* C22 as stated: every accepted frame with index > 0 declares the total of
\* the index-0 frame that started the reception and has the number of frames
\* accepted since that start as its index; remaining + accepted = that total.
C22_SequenceInvariant ==
    /\ [][(FedNow /\ AcceptedNow /\ FrameNow.current_chunk > 0) =>
            (/\ h_rx.started
             /\ FrameNow.overall_chunks = h_rx.total
             /\ FrameNow.current_chunk = h_rx.accepted)]_vars
    /\ [](h_rx.started => receiver.remaining_chunks + h_rx.accepted = h_rx.total)

\* C22, the part that the code keeps: the counter and the accepted frames add
\* up to the total declared at the start
C22_CounterOnly ==
    h_rx.started => receiver.remaining_chunks + h_rx.accepted = h_rx.total

\* C23: in every state a frame with index 0 empties the buffer, clears error
\* and new_data and sets the counter from the frame's total before the frame is
\* validated: afterwards the buffer is the frame's data or empty, the counter
\* is the total less the frame if accepted, and error and new_data are those
\* of this frame alone.
C23_Resynchronization ==
    [][(FedNow /\ FrameNow.current_chunk = 0) =>
        LET good == Prefix2(MD5(FrameNow.data)) = FrameNow.hash
        IN  /\ receiver'.data = IF good THEN FrameNow.data ELSE <<>>
            /\ receiver'.remaining_chunks =
                  FrameNow.overall_chunks - (IF good THEN 1 ELSE 0)
            /\ receiver'.error = IF good THEN NONE ELSE WRONG_HASH
            /\ receiver'.new_data = (good /\ FrameNow.overall_chunks = 1)]_vars

\* C23 witness: a frame with index 0 and total 2 was accepted and is all the
\* buffer holds
C23_Witness ==
    /\ h_rx.op = "feed"
    /\ h_rx.frame.current_chunk = 0
    /\ h_rx.frame.overall_chunks = 2
    /\ h_rx.accepted = 1
    /\ receiver.data = h_rx.frame.data
    /\ receiver.remaining_chunks = 1
    /\ receiver.error = NONE
    /\ ~receiver.new_data

\* C24: for a reception started by a frame with index 0 the callback is called
\* at most once, in the new_chunk call that brings the counter to zero, with
\* the data of the frames accepted since the start joined in order; new_data
\* is set in that call and is clear after data was read.
C24_OneShotDelivery ==
    /\ [](Len(h_rx.calls) <= 1)
    /\ [](receiver.data = h_rx.joined)
    /\ [](h_rx.op = "read" => ~receiver.new_data)
    /\ [][FedNow =>
            IF AcceptedNow /\ receiver'.remaining_chunks = 0
            THEN CallsNow = <<h_rx'.joined>> /\ receiver'.new_data
            ELSE CallsNow = <<>>]_vars

\* C24 witness: a reception of two frames was delivered once and then read
C24_Witness ==
    /\ h_rx.started
    /\ h_rx.total = 2
    /\ h_rx.accepted = 2
    /\ h_rx.calls = <<h_rx.joined>>
    /\ Len(h_rx.joined) = 2
    /\ h_rx.op = "read"
    /\ ~receiver.new_data

(* -------------------------- claims on LLSender ------------------------ *)
\* the number of frames of the payload the sender holds: the least k with
\* k * payload_size >= len(payload)
FrameCount ==
    LET L == Len(sender.data)
        p == sender.mtu - PAYLOAD_HEADER_SIZE
    IN  CHOOSE k \in 0..L : k * p >= L /\ (k = 0 \/ (k - 1) * p < L)

\* the i-th frame (0-based) of the payload the sender holds
FrameOf(i) ==
    LET L == Len(sender.data)
        p == sender.mtu - PAYLOAD_HEADER_SIZE
        slice == SubSeq(sender.data, i * p + 1, Min(L, (i + 1) * p))
    IN  [current_chunk |-> i, overall_chunks |-> FrameCount,
         hash |-> Prefix2(MD5(slice)), data |-> slice]

\* C11: for a payload of length L and payload size p = mtu - header size, the
\* i-th frame pulled has sequence index i, total ceil(L/p), the bytes
\* [i*p, min(L, (i+1)*p)) and their truncated digest; no more than ceil(L/p)
\* frames are produced, and exactly that many once the end of stream is returned.
C11_FrameLayout ==
    sender.gen # "none" =>
        /\ Len(h_pulled) <= FrameCount
        /\ sender.gen = "done" => Len(h_pulled) = FrameCount
        /\ \A i \in 1..Len(h_pulled) : h_pulled[i] = FrameOf(i - 1)

\* C11 witness: a 3-byte payload with payload size 2 was pulled to its end
C11_Witness ==
    /\ sender.gen = "done"
    /\ Len(sender.data) = 3
    /\ sender.mtu - PAYLOAD_HEADER_SIZE = 2
    /\ Len(h_pulled) = 2
    /\ h_pulled[2].current_chunk = 1
    /\ h_pulled[2].data = SubSeq(sender.data, 3, 3)

\* C12: once the last frame of a payload was emitted, every get_chunk returns
\* the empty end-of-stream frame and emits no data, until the next send; the
\* first get_chunk after a send of a non-empty payload, in mid-sequence or
\* not, returns frame 0 of the new payload.
C12_EndOfStreamAndRestart ==
    [][GetChunk =>
        /\ Len(h_pulled) = FrameCount =>
              (wire' = "eos" /\ h_pulled' = h_pulled /\ sender'.data = sender.data)
        /\ (h_pulled = <<>> /\ sender.data # <<>> /\ h_mode \in {"starting", "interrupting"}) =>
              (wire' = "ref" /\ h_pulled' = <<FrameOf(0)>>)]_vars

\* C12 witness: a send interrupted a sequence, the new payload was pulled to
\* its last frame and the end of stream was returned
C12_Witness ==
    /\ h_mode = "interrupting"
    /\ sender.gen = "done"
    /\ wire = "eos"
    /\ Len(h_pulled) = 2
    /\ h_pulled[1].current_chunk = 0

(* ------------------------- claims on downloads ------------------------ *)
\* the super-chunks received for the tracked request, joined
RECURSIVE Join(_)
Join(chunks) == IF chunks = <<>> THEN <<>> ELSE Head(chunks) \o Join(Tail(chunks))

\* the artifacts on disk are chunk0.bin .. chunk{count-1}.bin
Contiguous == DOMAIN disk.chunks = 0..(CountChunks(disk) - 1)

\* C3: for a download accepted with n >= 1 super-chunks, the status is
\* InProgress after each of the first n-1 add_chunk calls; when the n received
\* super-chunks hash to the declared file_hash it is Finished after the n-th,
\* and it is never Finished before the n-th.
C3_Finalization ==
    (d_accepted /\ dl.request.chunks >= 1) =>
        /\ Len(d_received) < dl.request.chunks => dl.response.status = TRANSFER
        /\ (/\ Len(d_received) = dl.request.chunks
            /\ MD5(Join(d_received)) = dl.request.hash) => dl.response.status = FINISHED
        /\ dl.response.status = FINISHED => Len(d_received) >= dl.request.chunks

\* C3 witness: the second of two declared super-chunks has just finished the download
C3_Witness ==
    /\ d_accepted
    /\ d_op = "add_chunk"
    /\ dl.request.chunks = 2
    /\ Len(d_received) = 2
    /\ dl.response.status = FINISHED

\* the download received k of n super-chunks, 0 <= k < n, and is in progress
Partial ==
    /\ d_accepted
    /\ disk.marker.exists
    /\ disk.marker.valid
    /\ dl.response.status = TRANSFER
    /\ dl.response.next_chunk = Len(d_received)
    /\ dl.response.next_chunk < dl.response.chunks

\* C4 as stated: a restart of a download that received k of n super-chunks
\* rebuilds a response with next_chunk = k and the filename, total, hash,
\* size and status it had before the restart.
C4_ResumeIdempotence ==
    [][(Partial /\ d_op' = "restart")
       => (/\ dl'.response.next_chunk = Len(d_received)
           /\ dl'.response = dl.response)]_vars

\* C7 as stated: next_chunk never exceeds chunks, in the response of the
\* download session and in the response of the upload session.
C7_IndexBounded ==
    /\ dl.response.next_chunk <= dl.response.chunks
    /\ ul.response.next_chunk <= ul.response.chunks

\* C8: whenever request.json exists, the number of chunk files on disk equals
\* the response's next_chunk.
C8_ArtifactCount == disk.marker.exists => CountChunks(disk) = dl.response.next_chunk

\* C8 witness: a restart resumed a download with two artifacts on disk
C8_Witness ==
    /\ d_op = "restart"
    /\ disk.marker.exists
    /\ CountChunks(disk) = 2
    /\ dl.response.next_chunk = 2

\* C9 as stated: request.json exists whenever the status is InProgress after
\* a request was accepted, and is absent whenever the status is Finished or
\* Error.
C9_MarkerIffInProgress ==
    /\ (d_accepted /\ dl.response.status = TRANSFER) => disk.marker.exists
    /\ dl.response.status \in {FINISHED, ERROR} => ~disk.marker.exists

\* C10 as stated: for an accepted request cb_finished is called exactly once
\* when the download is Finished or Error, and not while it is InProgress.
C10_CallbackOnce ==
    d_accepted =>
        /\ dl.response.status \in {FINISHED, ERROR} => Len(d_cb) = 1
        /\ dl.response.status = TRANSFER => Len(d_cb) = 0
        /\ Len(d_cb) <= 1

\* the n-th add_chunk of an accepted request of n >= 1 super-chunks has returned
LastChunkIn ==
    /\ d_accepted
    /\ d_op = "add_chunk"
    /\ dl.request.chunks >= 1
    /\ Len(d_received) = dl.request.chunks

\* C13: when the n-th super-chunk arrives and the artifacts 0..n-1 do not hash
\* to the declared file hash, the status is Error, cb_finished was called once
\* with a null path, request.json is deleted and the n artifacts are on disk.
C13_IntegrityError ==
    (LastChunkIn /\ MD5(Join(d_received)) # dl.request.hash) =>
        /\ dl.response.status = ERROR
        /\ d_cb = <<[path |-> "None", target |-> UNKNOWN]>>
        /\ ~disk.marker.exists
        /\ DOMAIN disk.chunks = 0..(dl.request.chunks - 1)
        /\ \A i \in DOMAIN disk.chunks : disk.chunks[i] = d_received[i + 1]

\* C13 witness: two super-chunks that do not hash to the declared hash arrived
C13_Witness ==
    /\ LastChunkIn
    /\ dl.request.chunks = 2
    /\ dl.request.hash # EmptyHash
    /\ MD5(Join(d_received)) # dl.request.hash
    /\ dl.response.status = ERROR
    /\ CountChunks(disk) = 2

\* C14 as stated: after the n-th add_chunk returns with status Finished,
\* neither request.json nor any chunk file is on disk.
C14_SuccessCleanup ==
    (LastChunkIn /\ dl.response.status = FINISHED) =>
        (~disk.marker.exists /\ CountChunks(disk) = 0)

\* C15: set_request with a hash that differs from the tracked one, or while
\* the status is not InProgress, starts a new transfer: next_chunk 0, size 0,
\* status InProgress, chunks and filename of the request, request.json holding
\* the request, and no chunk file on disk (d_op' is "set_request" for exactly
\* these requests, and d_arg' is the request).
C15_NewTransfer ==
    [][d_op' = "set_request"
       => (/\ dl'.response.next_chunk = 0
           /\ dl'.response.size = 0
           /\ dl'.response.status = TRANSFER
           /\ dl'.response.chunks = d_arg'.chunks
           /\ dl'.response.filename = d_arg'.filename
           /\ dl'.request = d_arg'
           /\ disk'.marker.exists
           /\ disk'.marker.valid
           /\ FromJson(StartTransferRequest, disk'.marker.json) = d_arg'
           /\ CountChunks(disk') = 0)]_vars

\* C15 witness: a request was accepted after an earlier transfer had left its
\* final file on disk, and the directory holds no chunk file
C15_Witness ==
    /\ d_op = "set_request"
    /\ d_accepted
    /\ d_received = <<>>
    /\ disk.final.exists
    /\ disk.marker.exists
    /\ CountChunks(disk) = 0
    /\ dl.response.next_chunk = 0
    /\ dl.response.status = TRANSFER

\* C16: while the status is InProgress, set_request with the tracked hash
\* leaves the response, the tracked request, request.json and the chunk files
\* as they are, however often it is repeated (d_op' is "reannounce" for
\* exactly these requests).
C16_Reannouncement ==
    [][d_op' = "reannounce"
       => (dl' = dl /\ disk' = disk)]_vars

\* C16 witness: a request was announced again after one super-chunk of two
C16_Witness ==
    /\ d_op = "reannounce"
    /\ d_accepted
    /\ Len(d_received) = 1
    /\ dl.response.status = TRANSFER
    /\ dl.response.next_chunk = 1
    /\ dl.response.chunks = 2
    /\ CountChunks(disk) = 1
    /\ disk.marker.exists

\* C17: get_response gives status Error whenever chunks = 0 or next_chunk >
\* chunks and the status as it was otherwise; it changes nothing else of the
\* response and nothing on disk.
C17_GetResponse ==
    [][d_op' = "get_response" =>
        /\ dl'.response.status =
              IF dl.response.chunks = 0 \/ dl.response.next_chunk > dl.response.chunks
              THEN ERROR
              ELSE dl.response.status
        /\ dl'.response = [dl.response EXCEPT !.status = dl'.response.status]
        /\ dl'.request = dl.request
        /\ disk' = disk]_vars

\* C17 witness: a finished one-chunk download took a further super-chunk and
\* the response was then asked for
C17_Witness ==
    /\ d_op = "get_response"
    /\ dl.response.chunks = 1
    /\ dl.response.next_chunk = 2
    /\ Len(d_cb) = 1
    /\ d_cb[1].path # "None"
    /\ dl.response.status = ERROR

\* C18: a restart on a directory whose request.json is absent or does not
\* deserialize completes and leaves neither request.json nor chunk files;
\* a restart resumes a transfer only from a request.json that deserializes.
C18_StartupCleanup ==
    [][d_op' = "restart" =>
        /\ (~disk.marker.exists \/ ~disk.marker.valid) =>
              (/\ ~disk'.marker.exists
               /\ CountChunks(disk') = 0
               /\ dl' = HLDownload_new)
        /\ dl' # HLDownload_new => (disk.marker.exists /\ disk.marker.valid)]_vars

\* C18 witness: a restart found a damaged request.json beside chunk files, or
\* chunk files without request.json, and cleaned the directory
C18_Witness ==
    /\ d_op = "restart"
    /\ ~disk.marker.exists
    /\ CountChunks(disk) = 0
    /\ disk.final.exists
    /\ dl = HLDownload_new

\* C20 as stated: add_chunk while the status is not InProgress writes no
\* chunk file and leaves next_chunk, size and status as they were.
C20_OnlyInProgress ==
    [][(d_op' = "add_chunk" /\ dl.response.status # TRANSFER) =>
        (/\ disk'.chunks = disk.chunks
         /\ dl'.response.next_chunk = dl.response.next_chunk
         /\ dl'.response.size = dl.response.size
         /\ dl'.response.status = dl.response.status)]_vars

(* -------------------------- claims on uploads ------------------------- *)
\* C2 as stated: an accepted upload of a file of S bytes with super-chunk
\* size C has, when it is Finished, handed exactly ceil(S/C) super-chunks to
\* LLSender.send, the declared chunks, and their concatenation is the file.
C2_UploadCompleteness ==
    (u_accepted /\ ul.response.status = FINISHED) =>
        /\ Len(u_sent) = Ceil(Len(up.file), up.chunk_size)
        /\ ul.response.chunks = Ceil(Len(up.file), up.chunk_size)
        /\ Join(u_sent) = up.file

\* C2, the part that the code keeps: the super-chunks handed over join to the
\* file, and the declared chunks is ceil(S/C)
C2_UploadContent ==
    (u_accepted /\ ul.response.status = FINISHED) =>
        /\ ul.response.chunks = Ceil(Len(up.file), up.chunk_size)
        /\ Join(u_sent) = up.file

\* C19: a new-upload request for a file that is absent from the upload root
\* sets status FileNotFound with chunks 0, and while the status is FileNotFound
\* no get_response has handed a super-chunk to LLSender.send since that
\* request, also when an earlier upload was in progress.
C19_FileNotFound ==
    /\ [](ul.response.status = FILE_NOT_FOUND =>
            (ul.response.chunks = 0 /\ ~u_accepted /\ u_sent = <<>>))
    /\ [][\A request \in UploadRequests :
            (request.hash = EmptyHash /\ ~Exists(request.filename) /\ USetRequest(request))
            => (ul'.response.status = FILE_NOT_FOUND /\ ul'.response.chunks = 0)]_vars
    /\ [][(UGetResponse /\ ul.response.status = FILE_NOT_FOUND) =>
            (sender' = sender /\ ul' = ul)]_vars

\* C19 witness: a request for an absent file arrived while an upload was in
\* progress, after its first super-chunk had gone to the sender
C19_Witness ==
    /\ ul.response.status = FILE_NOT_FOUND
    /\ ul.response.chunks = 0
    /\ ul.gen.state = "run"
    /\ ul.gen.pos > 0
    /\ sender.gen = "run"
    /\ u_sent = <<>>

\* C25: set_request with a non-empty hash adds one to next_chunk and leaves
\* status, chunks, size, the rest of the response and the file cursor as they
\* were, also when next_chunk was at or beyond chunks, whatever the hash.
C25_Acknowledgement ==
    [][\A request \in UploadRequests :
        (request.hash # EmptyHash /\ USetRequest(request))
        => (/\ ul'.response = [ul.response EXCEPT !.next_chunk = @ + 1]
            /\ ul'.gen = ul.gen
            /\ sender' = sender)]_vars

\* C25 witness: acknowledgements took next_chunk beyond chunks while the status
\* stayed InProgress
C25_Witness ==
    /\ u_accepted
    /\ ul.response.status = TRANSFER
    /\ ul.response.chunks = 1
    /\ ul.response.next_chunk = 3
    /\ ul.gen.pos = 0

\* C27 as stated: while an accepted upload is InProgress the number of
\* super-chunks handed to LLSender.send is at most next_chunk + 1.
C27_SingleOutstanding ==
    (u_accepted /\ ul.response.status = TRANSFER) =>
        Len(u_sent) <= ul.response.next_chunk + 1

\* C28 as stated: once an accepted upload is Finished, a request that carries
\* the hash of the latest response leaves the status Finished and does not
\* reset next_chunk and size.
C28_AckAfterFinished ==
    [][\A request \in UploadRequests :
        (/\ u_accepted
         /\ ul.response.status = FINISHED
         /\ request.hash = ul.response.hash
         /\ request.filename = ul.response.filename
         /\ USetRequest(request))
        => (/\ ul'.response.status = FINISHED
            /\ ul'.response.next_chunk >= ul.response.next_chunk
            /\ ul'.response.size = ul.response.size)]_vars

\* C26: an accepted upload that is InProgress with k super-chunks handed out
\* does not stay so: a get_response call hands out the next one or makes it
\* Finished (or a new request replaces it), and at most
\* ceil(size / chunk_size) + 1 are handed out, so Finished is reached after
\* finitely many calls, acknowledgements in between or not; the call that finds
\* the generator exhausted makes the transition, with the hash empty and size
\* equal to the file size; further get_response calls change nothing.
C26_UploadTermination ==
    /\ \A k \in 0..(MaxFile + 1) :
          (u_accepted /\ ul.response.status = TRANSFER /\ Len(u_sent) = k)
          ~> (ul.response.status = FINISHED \/ ~u_accepted \/ Len(u_sent) # k)
    /\ [](u_accepted => Len(u_sent) <= Ceil(Len(up.file), up.chunk_size) + 1)
    /\ []((u_accepted /\ ul.response.status = FINISHED) =>
            (ul.response.hash = EmptyHash /\ ul.response.size = Len(up.file)))
    /\ [][(UGetResponse /\ u_accepted /\ ul.response.status = TRANSFER) =>
            (ul'.response.status = FINISHED <=> (ul.gen.short /\ sender' = sender))]_vars
    /\ [][(UGetResponse /\ ul.response.status = FINISHED) => (ul' = ul /\ sender' = sender)]_vars

\* C26 witness: an accepted upload of a 3-byte file in super-chunks of 2 is
\* Finished
C26_Witness ==
    /\ u_accepted
    /\ ul.response.status = FINISHED
    /\ Len(up.file) = 3
    /\ up.chunk_size = 2
    /\ ul.response.size = 3
    /\ ul.response.hash = EmptyHash
    /\ Len(u_sent) = 2

(* ----------------------- claims on crash recovery --------------------- *)
\* the download was resumed after a crash inside add_chunk with every artifact
\* of the request on disk and request.json still there
ResumedFull ==
    /\ d_op \in {"crash_add_chunk", "crash_transfer_finished"}
    /\ d_accepted
    /\ dl.response.status = TRANSFER
    /\ dl.response.chunks > 0
    /\ dl.response.next_chunk = dl.response.chunks
    /\ CountChunks(disk) = dl.response.chunks

\* the process restarted again or a new transfer was requested
Interrupted ==
    \/ d_op \in {"restart", "crash_set_request", "set_request"}
    \/ d_op \in {"crash_add_chunk", "crash_transfer_finished"} /\ ~ResumedFull

\* C29 as stated: a download resumed after a crash during the last super-chunk,
\* with all its artifacts written and the resume marker still there, reaches
\* Finished or Error under get_response, set_request and add_chunk calls
\* (unless the process restarts again or a new transfer replaces it).
C29_CrashAtLastChunk ==
    ResumedFull ~> (dl.response.status \in {FINISHED, ERROR} \/ Interrupted)

\* C30 as stated: a session resumed after a crash inside the set_request that
\* accepted a new transfer, between the write of request.json and
\* _delete_chunks, has next_chunk 0, and the file a later finalization writes
\* consists of the super-chunks delivered for that request.
C30_CrashInsideAccept ==
    /\ [](d_op = "crash_set_request" => dl.response.next_chunk = 0)
    /\ [][(d_crash = "accept" /\ d_crash' = "accept" /\ d_cb' # d_cb) =>
            disk'.final.data = ConcatChunks([i \in 0..(Len(d_received') - 1) |-> d_received'[i + 1]],
                                           0, Len(d_received'))]_vars

(* ------------------- claims on the receiver's counter ----------------- *)
\* C31 as stated: for every stream of frames fed to new_chunk the counter of
\* remaining frames stays >= 0 and every accepted frame has an index below
\* the total it declares.
C31_CounterNonNegative ==
    /\ [](receiver.remaining_chunks >= 0)
    /\ [][(FedNow /\ AcceptedNow) =>
            FrameNow.current_chunk < FrameNow.overall_chunks]_vars
====
